---- MODULE Spec2Model ----
(***************************************************************************)
(* License lifecycle of av-licensing: the scripts validate-request.py,     *)
(* validate-version.py, generate-license.py, check-expiring-licenses.py    *)
(* and auto-reactivate.py modelled as operations over the request texts,   *)
(* config/activation-config.json and the shared files                      *)
(* data/active-licenses/, data/license-history/ and                        *)
(* expiring_licenses.json.                                                 *)
(***************************************************************************)
EXTENDS Integers, Sequences, FiniteSets, TLC

(***************************************************************************)
(* Bounds of the model.                                                    *)
(***************************************************************************)
TicksPerSecond == 2      \* resolution of datetime.now() below one second
MaxOps == 4              \* clock advances and script runs in one behaviour

(***************************************************************************)
(* Time.  A datetime is a number of ticks; strftime('%Y%m%d-%H%M%S') keeps *)
(* whole seconds only.                                                     *)
(***************************************************************************)
Day == 24 * 60 * 60 * TicksPerSecond
Now0 == 100 * Day
Month == 30 * Day         \* time that passes between the runs of the scripts

ExtensionDays == 30
DaysAhead == 5

timedelta(days) == days * Day
strftime(t) == t \div TicksPerSecond

(***************************************************************************)
(* ISO date strings as they are stored in the JSON files.  fmt is the      *)
(* shape of the text: "naive" (2024-01-01T00:00:00), "Z" (...Z),           *)
(* "+00:00" (...+00:00), "bad" (not a date), "missing" (key absent).       *)
(***************************************************************************)
Naive(t) == [fmt |-> "naive", t |-> t]
Zulu(t) == [fmt |-> "Z", t |-> t]
Offset(t) == [fmt |-> "+00:00", t |-> t]
BadDate == [fmt |-> "bad", t |-> 0]
NoDate == [fmt |-> "missing", t |-> 0]

\* str.replace('Z', '+00:00')
replace_Z(s) == IF s.fmt = "Z" THEN [s EXCEPT !.fmt = "+00:00"] ELSE s

\* datetime.fromisoformat: ok = FALSE stands for ValueError
fromisoformat(s) ==
  CASE s.fmt = "naive" -> [ok |-> TRUE, aware |-> FALSE, t |-> s.t]
    [] s.fmt = "+00:00" -> [ok |-> TRUE, aware |-> TRUE, t |-> s.t]
    [] OTHER -> [ok |-> FALSE, aware |-> FALSE, t |-> 0]

\* datetime.isoformat
isoformat(d) == IF d.aware THEN Offset(d.t) ELSE Naive(d.t)

\* datetime.now() is a naive datetime
datetime_now(now) == [ok |-> TRUE, aware |-> FALSE, t |-> now]

\* d1 <= d2 on datetimes raises TypeError when exactly one of them is aware
le_raises(d1, d2) == d1.aware # d2.aware

(***************************************************************************)
(* Fingerprints are character strings.                                     *)
(***************************************************************************)
Rep(c, n) == [i \in 1..n |-> c]
FpA == Rep("A", 16)
FpB == Rep("B", 32)
NoFp == <<"<none>">>       \* the key hardware_fingerprint is absent
StoreFps == {FpA, FpB}

(***************************************************************************)
(* License records (the JSON objects) and files.                           *)
(***************************************************************************)
Absent == -1               \* the key reactivation_count is absent

Acme == <<"A", "c", "m", "e">>
OpsAtAcme == <<"o", "p", "s", "@", "a", "c", "m", "e", ".", "c", "o", "m">>

Rec(fp, key, created, expires, status) ==
  [license_key |-> key, hardware_fingerprint |-> fp,
   company_name |-> Acme, contact_email |-> OpsAtAcme,
   created_date |-> created, expires_date |-> expires, status |-> status,
   reactivation_count |-> Absent, last_reactivated |-> NoDate]

NullRec == Rec(NoFp, <<>>, NoDate, NoDate, "")

\* a file of data/active-licenses: absent, not JSON, JSON that is not an
\* object, or a JSON object
NoFile == [kind |-> "none", data |-> NullRec]
Garbage == [kind |-> "garbage", data |-> NullRec]
NonDict == [kind |-> "nondict", data |-> NullRec]
DictFile(r) == [kind |-> "dict", data |-> r]

SampleFiles(fp) ==
  {NoFile, Garbage, NonDict}
  \cup {DictFile(Rec(fp, <<fp, 0>>, Naive(Now0 - timedelta(60)), e, "active")) :
          e \in {Naive(Now0 + timedelta(2)), Naive(Now0 - timedelta(40)),
                 Naive(Now0 + timedelta(5)), Naive(Now0 + timedelta(10)),
                 Zulu(Now0 + timedelta(2)), BadDate, NoDate}}
  \cup {DictFile(Rec(fp, <<fp, 0>>, Naive(Now0 - timedelta(60)),
                     Naive(Now0 + timedelta(2)), "expired")),
        DictFile(Rec(NoFp, <<fp, 0>>, Naive(Now0 - timedelta(60)),
                     Naive(Now0 + timedelta(2)), "active"))}

(***************************************************************************)
(* Text.  The title and the body of a request, the versions and the        *)
(* extracted fields are sequences of characters.                           *)
(***************************************************************************)
Upper == {"A", "B", "C", "D", "E", "F", "G", "H", "I", "J", "K", "L", "M",
          "N", "O", "P", "Q", "R", "S", "T", "U", "V", "W", "X", "Y", "Z"}
Lower == {"a", "b", "c", "d", "e", "f", "g", "h", "i", "j", "k", "l", "m",
          "n", "o", "p", "q", "r", "s", "t", "u", "v", "w", "x", "y", "z"}
Digit == {"0", "1", "2", "3", "4", "5", "6", "7", "8", "9"}

Newline == "\n"
Whitespace == {" ", "\t", Newline}

UpperSeq == <<"A", "B", "C", "D", "E", "F", "G", "H", "I", "J", "K", "L", "M",
              "N", "O", "P", "Q", "R", "S", "T", "U", "V", "W", "X", "Y", "Z">>
LowerSeq == <<"a", "b", "c", "d", "e", "f", "g", "h", "i", "j", "k", "l", "m",
              "n", "o", "p", "q", "r", "s", "t", "u", "v", "w", "x", "y", "z">>
DigitSeq == <<"0", "1", "2", "3", "4", "5", "6", "7", "8", "9">>

LowerOf == [c \in Upper |-> LowerSeq[CHOOSE k \in 1..Len(UpperSeq) : UpperSeq[k] = c]]

\* str.lower
lower(s) ==
  SubSeq([i \in 1..Len(s) |-> IF s[i] \in Upper THEN LowerOf[s[i]] ELSE s[i]], 1, Len(s))

\* the text pat stands in s at position i
at(s, pat, i) ==
  /\ i >= 1
  /\ i + Len(pat) - 1 <= Len(s)
  /\ \A k \in 1..Len(pat) : s[i + k - 1] = pat[k]

\* pat in s
contains(s, pat) == \E i \in 1..(Len(s) + 1) : at(s, pat, i)

Min(S) == CHOOSE x \in S : \A y \in S : x <= y
Max(S) == CHOOSE x \in S : \A y \in S : x >= y

\* str.strip
strip(s) ==
  LET keep == {i \in 1..Len(s) : s[i] \notin Whitespace}
  IN  IF keep = {} THEN <<>> ELSE SubSeq(s, Min(keep), Max(keep))

\* the end of the line that position i is on: the last position before the
\* next newline
line_end(s, i) ==
  LET nl == {k \in i..Len(s) : s[k] = Newline}
  IN  IF nl = {} THEN Len(s) ELSE Min(nl) - 1

\* re.search(label + r'\s*([^\n]+)', s).group(1), or <<>> when there is no
\* match (found = FALSE).  \s* takes the longest run of whitespace after the
\* label and gives characters back until a character other than a newline
\* follows; [^\n]+ then runs to the end of that line.  The leftmost
\* occurrence of the label that allows a match is the one taken
capture_start(s, from) ==
  LET run == {k \in from..(Len(s) + 1) : \A j \in from..(k - 1) : s[j] \in Whitespace}
      good == {k \in run : k <= Len(s) /\ s[k] # Newline}
  IN  IF good = {} THEN 0 ELSE Max(good)

search_field(s, label, fold) ==
  LET text == IF fold THEN lower(s) ELSE s
      pat == IF fold THEN lower(label) ELSE label
      hits == {i \in 1..Len(s) : at(text, pat, i) /\ capture_start(s, i + Len(pat)) # 0}
  IN  IF hits = {} THEN [found |-> FALSE, group |-> <<>>]
      ELSE LET b == capture_start(s, Min(hits) + Len(pat))
           IN  [found |-> TRUE, group |-> SubSeq(s, b, line_end(s, b))]

\* str.split on a separator of one character
RECURSIVE split(_, _)
split(s, sep) ==
  LET hits == {i \in 1..Len(s) : s[i] = sep}
  IN  IF hits = {} THEN <<s>>
      ELSE <<SubSeq(s, 1, Min(hits) - 1)>> \o split(SubSeq(s, Min(hits) + 1, Len(s)), sep)

\* int(x) on a text of digits; ok = FALSE stands for ValueError (an empty
\* text, or a character that is not a digit)
RECURSIVE digits_value(_)
digits_value(x) ==
  IF x = <<>> THEN 0
  ELSE 10 * digits_value(SubSeq(x, 1, Len(x) - 1))
       + (CHOOSE k \in 1..Len(DigitSeq) : DigitSeq[k] = x[Len(x)]) - 1

int(x) ==
  IF x = <<>> \/ \E i \in 1..Len(x) : x[i] \notin Digit
  THEN [ok |-> FALSE, n |-> 0]
  ELSE [ok |-> TRUE, n |-> digits_value(x)]

(***************************************************************************)
(* validate-request.py                                                     *)
(***************************************************************************)

\* re.match(r'^[A-Za-z0-9]{16}$', fingerprint)
validate_hardware_fingerprint(fingerprint) ==
  /\ Len(fingerprint) = 16
  /\ \A i \in 1..Len(fingerprint) : fingerprint[i] \in Upper \cup Lower \cup Digit

\* re.match(r'^[a-zA-Z0-9._%+-]+@[a-zA-Z0-9.-]+\.[a-zA-Z]{2,}$', email)
validate_email(email) ==
  \E i, j \in 1..Len(email) :
    /\ i >= 2 /\ email[i] = "@"
    /\ j >= i + 2 /\ email[j] = "."
    /\ Len(email) - j >= 2
    /\ \A k \in 1..(i - 1) :
         email[k] \in Upper \cup Lower \cup Digit \cup {".", "_", "%", "+", "-"}
    /\ \A k \in (i + 1)..(j - 1) :
         email[k] \in Upper \cup Lower \cup Digit \cup {".", "-"}
    /\ \A k \in (j + 1)..Len(email) : email[k] \in Upper \cup Lower

\* the validation of the extracted fields in extract_issue_info; an empty
\* string stands for None as well (both are false in `if not ...`)
validation_errors(fingerprint, company, email) ==
  (IF fingerprint = <<>> THEN <<"Hardware fingerprint not found">>
   ELSE IF ~validate_hardware_fingerprint(fingerprint)
        THEN <<"Invalid hardware fingerprint format">> ELSE <<>>)
  \o (IF company = <<>> THEN <<"Company name not found">>
      ELSE IF Len(company) < 2 THEN <<"Company name too short">> ELSE <<>>)
  \o (IF email = <<>> THEN <<"Contact email not found">>
      ELSE IF ~validate_email(email) THEN <<"Invalid email format">> ELSE <<>>)

\* re.match(r'Auto-Activation Request - (.+?) - (.+)', title): the first
\* group is as short as it can be, so it ends at the first ' - ' that has a
\* character before it and one after it; the second group runs to the end
\* of the line
TitlePrefix == <<"A", "u", "t", "o", "-", "A", "c", "t", "i", "v", "a", "t", "i", "o", "n", " ", "R", "e", "q", "u", "e", "s", "t", " ", "-", " ">>
Sep == <<" ", "-", " ">>

title_match(title) ==
  LET b == Len(TitlePrefix) + 1
      cuts == {p \in (b + 1)..Len(title) :
                 /\ at(title, Sep, p)
                 /\ p + Len(Sep) <= Len(title)
                 /\ \A k \in b..(p + Len(Sep)) : title[k] # Newline}
  IN  IF ~at(title, TitlePrefix, 1) \/ cuts = {}
      THEN [found |-> FALSE, group1 |-> <<>>, group2 |-> <<>>]
      ELSE [found |-> TRUE,
            group1 |-> SubSeq(title, b, Min(cuts) - 1),
            group2 |-> SubSeq(title, Min(cuts) + Len(Sep),
                              line_end(title, Min(cuts) + Len(Sep)))]

EmailLabel == <<"E", "m", "a", "i", "l", ":">>
ContactLabel == <<"C", "o", "n", "t", "a", "c", "t", ":">>
FingerprintLabel == <<"H", "a", "r", "d", "w", "a", "r", "e", " ", "F", "i", "n", "g", "e", "r", "p", "r", "i", "n", "t", ":">>
CompanyLabel == <<"C", "o", "m", "p", "a", "n", "y", ":">>

\* re.search(label + r'\s*([^\n]+)', body) followed by group(1).strip();
\* <<>> stands for None and for the empty string
body_field(body, label) ==
  IF body = <<>> THEN <<>> ELSE strip(search_field(body, label, FALSE).group)

\* extract_issue_info
extract_issue_info(title, body) ==
  LET m == title_match(title)
      in_title == [company |-> IF m.found THEN strip(m.group1) ELSE <<>>,
                   fingerprint |-> IF m.found THEN strip(m.group2) ELSE <<>>]
      fingerprint == IF in_title.fingerprint # <<>> THEN in_title.fingerprint
                     ELSE body_field(body, FingerprintLabel)
      company == IF in_title.company # <<>> THEN in_title.company
                 ELSE body_field(body, CompanyLabel)
      email == body_field(body, EmailLabel)
      errors == validation_errors(fingerprint, company, email)
  IN  [fingerprint |-> fingerprint, company |-> company, email |-> email,
       name |-> body_field(body, ContactLabel),
       valid |-> Len(errors) = 0, errors |-> errors]


(***************************************************************************)
(* generate-license.py                                                     *)
(***************************************************************************)
MinFingerprintLen == 32

\* sha256 of "fingerprint:company:email:now", cut to 32 characters: the key
\* is a function of these four values
generate_license_key(fingerprint, company, email, now) ==
  <<fingerprint, company, email, now>>

create_license(fingerprint, company, email, duration_days, now) ==
  [license_key |-> generate_license_key(fingerprint, company, email, now),
   hardware_fingerprint |-> fingerprint,
   company_name |-> company, contact_email |-> email,
   created_date |-> isoformat(datetime_now(now)),
   expires_date |-> isoformat([datetime_now(now) EXCEPT !.t = now + timedelta(duration_days)]),
   status |-> "active",
   reactivation_count |-> Absent, last_reactivated |-> NoDate]

\* the checks of main on its arguments: the message of the sys.exit(1), or
\* "" when the arguments pass
argument_error(fingerprint, company, email) ==
  IF fingerprint = <<>> \/ Len(fingerprint) < MinFingerprintLen
  THEN "ERROR: Invalid hardware fingerprint"
  ELSE IF company = <<>> \/ Len(company) < 2
  THEN "ERROR: Invalid company name"
  ELSE IF email = <<>> \/ "@" \notin {email[i] : i \in 1..Len(email)}
  THEN "ERROR: Invalid email address"
  ELSE ""

\* the arguments the issuance is tried on
SampleFingerprints ==
  {<<>>, Rep("A", 15), FpA, Rep("A", 17), Rep("A", 15) \o <<"-">>, FpB}
SampleCompanies == {<<"A">>, Acme}
SampleEmails == {<<"o", "p", "s">>, <<"o", "@", "a">>, OpsAtAcme}
SampleDurations == {30, 0, -1}

\* the stores the reactivation behaviours start from
LifeFiles(fp) ==
  IF fp = FpA
  THEN {DictFile(Rec(fp, <<fp, 0>>, Naive(Now0 - timedelta(60)),
                      Naive(Now0 - timedelta(40)), "active")),
        DictFile(Rec(NoFp, <<fp, 0>>, Naive(Now0 - timedelta(60)),
                     Naive(Now0 + timedelta(2)), "active"))}
  ELSE {NoFile, DictFile(Rec(fp, <<fp, 0>>, Naive(Now0 - timedelta(60)),
                             Naive(Now0 + timedelta(2)), "active"))}

(***************************************************************************)
(* check-expiring-licenses.py                                              *)
(***************************************************************************)
\* load_active_licenses: the files in os.listdir order; a file that is not
\* JSON is reported and left out of the list
load_active_licenses(st, order) ==
  SelectSeq([i \in 1..Len(order) |-> st[order[i]]], LAMBDA f : f.kind # "garbage")

load_errors(st, order) ==
  SelectSeq(order, LAMBDA fp : st[fp].kind = "garbage")

\* classify without the test of the status
classify_NoStatusTest(license_data, days_ahead, now) ==
  LET cutoff_date == [datetime_now(now) EXCEPT !.t = now + timedelta(days_ahead)]
      expires_date == fromisoformat(replace_Z(license_data.expires_date))
  IN  IF license_data.expires_date.fmt = "missing" THEN "skip"
      ELSE IF ~expires_date.ok THEN "error"
      ELSE IF le_raises(expires_date, cutoff_date) THEN "error"
      ELSE IF expires_date.t <= cutoff_date.t THEN "expiring"
      ELSE "later"

\* the body of the loop of find_expiring_licenses for one record:
\* "skip" (continue), "error" (exception caught and printed), "expiring"
\* (appended) or "later" (not appended)
classify(license_data, days_ahead, now) ==
  LET cutoff_date == [datetime_now(now) EXCEPT !.t = now + timedelta(days_ahead)]
      expires_date == fromisoformat(replace_Z(license_data.expires_date))
  IN  IF license_data.status # "active" THEN "skip"
      ELSE IF license_data.expires_date.fmt = "missing" THEN "skip"
      ELSE IF ~expires_date.ok THEN "error"
      ELSE IF le_raises(expires_date, cutoff_date) THEN "error"
      ELSE IF expires_date.t <= cutoff_date.t THEN "expiring"
      ELSE "later"

find_expiring_licenses(licenses, days_ahead, now) ==
  LET hit == SelectSeq(licenses, LAMBDA f : classify(f.data, days_ahead, now) = "expiring")
  IN  [i \in 1..Len(hit) |-> hit[i].data]

parse_errors(licenses, days_ahead, now) ==
  LET bad == SelectSeq(licenses, LAMBDA f : classify(f.data, days_ahead, now) = "error")
  IN  [i \in 1..Len(bad) |-> bad[i].data.hardware_fingerprint]

\* license_data.get(...) on JSON that is not an object raises AttributeError
\* outside every try block
scan_crashes(licenses) == \E i \in 1..Len(licenses) : licenses[i].kind = "nondict"

(***************************************************************************)
(* auto-reactivate.py                                                      *)
(***************************************************************************)
get_reactivation_count(license_data) ==
  IF license_data.reactivation_count = Absent THEN 0
  ELSE license_data.reactivation_count

\* reactivate_license adding the 30 to the expiry without timedelta
reactivate_license_NoTimedelta(license_data, now) ==
  LET current_expires == fromisoformat(replace_Z(license_data.expires_date))
      new_expires == [current_expires EXCEPT !.t = @ + ExtensionDays]
  IN  IF ~current_expires.ok
      THEN [raised |-> TRUE, data |-> license_data]
      ELSE [raised |-> FALSE,
            data |-> [license_data EXCEPT
                        !.expires_date = isoformat(new_expires),
                        !.last_reactivated = isoformat(datetime_now(now)),
                        !.reactivation_count = get_reactivation_count(license_data) + 1,
                        !.status = "active"]]

\* reactivate_license storing a status of its own
reactivate_license_MarksReactivated(license_data, now) ==
  LET current_expires == fromisoformat(replace_Z(license_data.expires_date))
      new_expires == [current_expires EXCEPT !.t = @ + timedelta(ExtensionDays)]
  IN  IF ~current_expires.ok
      THEN [raised |-> TRUE, data |-> license_data]
      ELSE [raised |-> FALSE,
            data |-> [license_data EXCEPT
                        !.expires_date = isoformat(new_expires),
                        !.last_reactivated = isoformat(datetime_now(now)),
                        !.reactivation_count = get_reactivation_count(license_data) + 1,
                        !.status = "reactivated"]]

\* reactivate_license issuing a new key with the extension
reactivate_license_NewKey(license_data, now) ==
  LET current_expires == fromisoformat(replace_Z(license_data.expires_date))
      new_expires == [current_expires EXCEPT !.t = @ + timedelta(ExtensionDays)]
  IN  IF ~current_expires.ok
      THEN [raised |-> TRUE, data |-> license_data]
      ELSE [raised |-> FALSE,
            data |-> [license_data EXCEPT
                        !.license_key = generate_license_key(license_data.hardware_fingerprint,
                                                             license_data.company_name,
                                                             license_data.contact_email, now),
                        !.expires_date = isoformat(new_expires),
                        !.last_reactivated = isoformat(datetime_now(now)),
                        !.reactivation_count = get_reactivation_count(license_data) + 1,
                        !.status = "active"]]

\* reactivate_license extending from the clock instead of the current expiry
reactivate_license_FromNow(license_data, now) ==
  LET current_expires == fromisoformat(replace_Z(license_data.expires_date))
      new_expires == [current_expires EXCEPT !.t = now + timedelta(ExtensionDays)]
  IN  IF ~current_expires.ok
      THEN [raised |-> TRUE, data |-> license_data]
      ELSE [raised |-> FALSE,
            data |-> [license_data EXCEPT
                        !.expires_date = isoformat(new_expires),
                        !.last_reactivated = isoformat(datetime_now(now)),
                        !.reactivation_count = get_reactivation_count(license_data) + 1,
                        !.status = "active"]]

\* reactivate_license: raised = TRUE stands for KeyError / ValueError, in
\* which case the record is left as it was
reactivate_license(license_data, now) ==
  LET current_expires == fromisoformat(replace_Z(license_data.expires_date))
      new_expires == [current_expires EXCEPT !.t = @ + timedelta(ExtensionDays)]
  IN  IF ~current_expires.ok
      THEN [raised |-> TRUE, data |-> license_data]
      ELSE [raised |-> FALSE,
            data |-> [license_data EXCEPT
                        !.expires_date = isoformat(new_expires),
                        !.last_reactivated = isoformat(datetime_now(now)),
                        !.reactivation_count = get_reactivation_count(license_data) + 1,
                        !.status = "active"]]

load_expiring_licenses(file) == IF file.exists THEN file.data ELSE <<>>

Procs == {"r1", "r2"}
IOResults == {"ok", "oserror"}

(***************************************************************************)
(* validate-version.py                                                     *)
(***************************************************************************)
DefaultVersion == <<"3", ".", "2", ".", "4">>

\* the configuration file config/activation-config.json: absent, not JSON,
\* JSON that is not an object, or an object; its activation_settings are
\* absent, not an object, or an object holding some of the four settings
NoConfig == [kind |-> "none", settings |-> [kind |-> "absent", dict |-> <<>>]]
GarbageConfig == [kind |-> "garbage", settings |-> [kind |-> "absent", dict |-> <<>>]]
NonDictConfig == [kind |-> "nondict", settings |-> [kind |-> "absent", dict |-> <<>>]]
ConfigWithout == [kind |-> "dict", settings |-> [kind |-> "absent", dict |-> <<>>]]
ConfigNull == [kind |-> "dict", settings |-> [kind |-> "nondict", dict |-> <<>>]]
ConfigWith(d) == [kind |-> "dict", settings |-> [kind |-> "dict", dict |-> d]]

\* dict.get(key, default)
dict_get(d, key, default) == IF key \in DOMAIN d THEN d[key] ELSE default

\* load_version_config: raised stands for json.JSONDecodeError, and for
\* AttributeError when the JSON is not an object; is_dict tells whether the
\* value returned has a method get
load_version_config(file) ==
  CASE file.kind = "none" ->
         [raised |-> FALSE, is_dict |-> TRUE,
          config |-> [minimum_version |-> DefaultVersion,
                      latest_version |-> DefaultVersion,
                      enforce_version_check |-> TRUE,
                      allow_older_reactivations |-> TRUE]]
    [] file.kind \in {"garbage", "nondict"} ->
         [raised |-> TRUE, is_dict |-> FALSE, config |-> <<>>]
    [] file.settings.kind = "absent" ->
         [raised |-> FALSE, is_dict |-> TRUE, config |-> <<>>]
    [] file.settings.kind = "nondict" ->
         [raised |-> FALSE, is_dict |-> FALSE, config |-> <<>>]
    [] OTHER ->
         [raised |-> FALSE, is_dict |-> TRUE, config |-> file.settings.dict]

\* the patterns of extract_version_from_body, in the order they are tried
VersionLabels ==
  <<<<"S", "o", "f", "t", "w", "a", "r", "e", " ", "V", "e", "r", "s", "i", "o", "n", ":">>,
    <<"C", "l", "i", "e", "n", "t", " ", "V", "e", "r", "s", "i", "o", "n", ":">>,
    <<"V", "e", "r", "s", "i", "o", "n", ":">>,
    <<"A", "p", "p", " ", "V", "e", "r", "s", "i", "o", "n", ":">>>>

\* the last position of the run of digits that starts at b (b - 1 when
\* there is none)
digits_end(s, b) ==
  LET stop == {k \in b..(Len(s) + 1) : k = Len(s) + 1 \/ s[k] \notin Digit}
  IN  Min(stop) - 1

\* the text matching [0-9]+\.[0-9]+\.[0-9]+ at position b, or <<>>
version_at(s, b) ==
  LET e1 == digits_end(s, b)
      e2 == digits_end(s, e1 + 2)
      e3 == digits_end(s, e2 + 2)
  IN  IF b > Len(s) \/ e1 < b \/ ~at(s, <<".">>, e1 + 1) THEN <<>>
      ELSE IF e2 < e1 + 2 \/ ~at(s, <<".">>, e2 + 1) THEN <<>>
      ELSE IF e3 < e2 + 2 THEN <<>>
      ELSE SubSeq(s, b, e3)

\* the first position from b on that holds no whitespace
skip_whitespace(s, b) ==
  Min({k \in b..(Len(s) + 1) : k = Len(s) + 1 \/ s[k] \notin Whitespace})

\* re.search(label + r'\s*([0-9]+\.[0-9]+\.[0-9]+)', body, re.IGNORECASE)
search_version(body, label) ==
  LET text == lower(body)
      pat == lower(label)
      hits == {i \in 1..Len(body) :
                 /\ at(text, pat, i)
                 /\ version_at(body, skip_whitespace(body, i + Len(label))) # <<>>}
  IN  IF hits = {} THEN <<>>
      ELSE version_at(body, skip_whitespace(body, Min(hits) + Len(label)))

\* extract_version_from_body: <<>> stands for None
extract_version_from_body(body) ==
  LET found == {k \in 1..Len(VersionLabels) : search_version(body, VersionLabels[k]) # <<>>}
  IN  IF body = <<>> \/ found = {} THEN <<>>
      ELSE search_version(body, VersionLabels[Min(found)])

Reactivation == <<"r", "e", "a", "c", "t", "i", "v", "a", "t", "i", "o", "n">>

is_reactivation_request(title, body) ==
  \/ contains(lower(title), Reactivation)
  \/ contains(lower(title), <<"a", "u", "t", "o", "-">> \o Reactivation)
  \/ body # <<>> /\ contains(lower(body), Reactivation)

\* [int(x) for x in v.split('.')]
version_parts(v) == LET xs == split(v, ".") IN [i \in 1..Len(xs) |-> int(xs[i])]

\* the loops that append 0 until both lists have the same length
pad(parts, n) == [i \in 1..n |-> IF i <= Len(parts) THEN parts[i].n ELSE 0]

\* compare_versions without the padding: the components present in both
\* versions are compared
compare_versions_NoPad(v1, v2) ==
  LET p1 == version_parts(v1)
      p2 == version_parts(v2)
      n == Min({Len(p1), Len(p2)})
      v1_parts == pad(p1, n)
      v2_parts == pad(p2, n)
      differ == {i \in 1..n : v1_parts[i] # v2_parts[i]}
  IN  IF \E i \in 1..Len(p1) : ~p1[i].ok THEN 0
      ELSE IF \E i \in 1..Len(p2) : ~p2[i].ok THEN 0
      ELSE IF differ = {} THEN 0
      ELSE IF v1_parts[Min(differ)] > v2_parts[Min(differ)] THEN 1
      ELSE -1

\* compare_versions: a component that is not a number raises ValueError,
\* which the except clause turns into the result 0
compare_versions(v1, v2) ==
  LET p1 == version_parts(v1)
      p2 == version_parts(v2)
      n == Max({Len(p1), Len(p2)})
      v1_parts == pad(p1, n)
      v2_parts == pad(p2, n)
      differ == {i \in 1..n : v1_parts[i] # v2_parts[i]}
  IN  IF \E i \in 1..Len(p1) : ~p1[i].ok THEN 0
      ELSE IF \E i \in 1..Len(p2) : ~p2[i].ok THEN 0
      ELSE IF differ = {} THEN 0
      ELSE IF v1_parts[Min(differ)] > v2_parts[Min(differ)] THEN 1
      ELSE -1

Unknown == <<"u", "n", "k", "n", "o", "w", "n">>

\* the result of validate_version before any branch is taken
new_result(client_version, minimum_version, latest_version, is_reactivation) ==
  [valid |-> FALSE,
   client_version |-> IF client_version = <<>> THEN Unknown ELSE client_version,
   minimum_version |-> minimum_version, latest_version |-> latest_version,
   is_latest |-> FALSE, is_acceptable |-> FALSE, is_reactivation |-> is_reactivation,
   message |-> [text |-> "", cites |-> <<>>], warning_only |-> FALSE]

\* validate_version asking for a version above the minimum
validate_version_StrictMinimum(client_version, minimum_version, latest_version, is_reactivation, allow_older_reactivations) ==
  LET result == new_result(client_version, minimum_version, latest_version, is_reactivation)
      vs_minimum == compare_versions(client_version, minimum_version)
      vs_latest == compare_versions(client_version, latest_version)
      compared == [result EXCEPT !.is_acceptable = vs_minimum > 0,
                                 !.is_latest = vs_latest >= 0]
  IN  IF client_version = <<>>
      THEN IF is_reactivation /\ allow_older_reactivations
           THEN [result EXCEPT
                   !.valid = TRUE, !.warning_only = TRUE,
                   !.message = [text |-> "Reactivation request - version not provided but allowed",
                                cites |-> <<>>]]
           ELSE [result EXCEPT
                   !.message = [text |-> "No software version information provided in request",
                                cites |-> <<>>]]
      ELSE IF is_reactivation /\ allow_older_reactivations
      THEN IF ~compared.is_latest
           THEN [compared EXCEPT
                   !.valid = TRUE, !.warning_only = TRUE,
                   !.message = [text |-> "Reactivation allowed, but please update",
                                cites |-> <<client_version, latest_version>>]]
           ELSE [compared EXCEPT
                   !.valid = TRUE,
                   !.message = [text |-> "Reactivation approved for current version",
                                cites |-> <<client_version>>]]
      ELSE IF vs_minimum <= 0
      THEN [compared EXCEPT
              !.valid = compared.is_acceptable,
              !.message = [text |-> "Version is outdated",
                           cites |-> <<client_version, minimum_version, latest_version>>]]
      ELSE IF vs_latest < 0
      THEN [compared EXCEPT
              !.valid = compared.is_acceptable, !.warning_only = TRUE,
              !.message = [text |-> "Version is acceptable but not latest",
                           cites |-> <<client_version, latest_version>>]]
      ELSE [compared EXCEPT
              !.valid = compared.is_acceptable,
              !.message = [text |-> "Version is current and up to date",
                           cites |-> <<client_version>>]]

\* validate_version holding a reactivation that states its version to the
\* minimum, as it does a new activation
validate_version_NoReactivationRule(client_version, minimum_version, latest_version, is_reactivation, allow_older_reactivations) ==
  LET result == new_result(client_version, minimum_version, latest_version, is_reactivation)
      vs_minimum == compare_versions(client_version, minimum_version)
      vs_latest == compare_versions(client_version, latest_version)
      compared == [result EXCEPT !.is_acceptable = vs_minimum >= 0,
                                 !.is_latest = vs_latest >= 0]
  IN  IF client_version = <<>>
      THEN IF is_reactivation /\ allow_older_reactivations
           THEN [result EXCEPT
                   !.valid = TRUE, !.warning_only = TRUE,
                   !.message = [text |-> "Reactivation request - version not provided but allowed",
                                cites |-> <<>>]]
           ELSE [result EXCEPT
                   !.message = [text |-> "No software version information provided in request",
                                cites |-> <<>>]]
      ELSE IF FALSE
      THEN IF ~compared.is_latest
           THEN [compared EXCEPT
                   !.valid = TRUE, !.warning_only = TRUE,
                   !.message = [text |-> "Reactivation allowed, but please update",
                                cites |-> <<client_version, latest_version>>]]
           ELSE [compared EXCEPT
                   !.valid = TRUE,
                   !.message = [text |-> "Reactivation approved for current version",
                                cites |-> <<client_version>>]]
      ELSE IF vs_minimum < 0
      THEN [compared EXCEPT
              !.valid = compared.is_acceptable,
              !.message = [text |-> "Version is outdated",
                           cites |-> <<client_version, minimum_version, latest_version>>]]
      ELSE IF vs_latest < 0
      THEN [compared EXCEPT
              !.valid = compared.is_acceptable, !.warning_only = TRUE,
              !.message = [text |-> "Version is acceptable but not latest",
                           cites |-> <<client_version, latest_version>>]]
      ELSE [compared EXCEPT
              !.valid = compared.is_acceptable,
              !.message = [text |-> "Version is current and up to date",
                           cites |-> <<client_version>>]]

\* validate_version; a message is its wording and the versions it cites
validate_version(client_version, minimum_version, latest_version, is_reactivation, allow_older_reactivations) ==
  LET result == new_result(client_version, minimum_version, latest_version, is_reactivation)
      vs_minimum == compare_versions(client_version, minimum_version)
      vs_latest == compare_versions(client_version, latest_version)
      compared == [result EXCEPT !.is_acceptable = vs_minimum >= 0,
                                 !.is_latest = vs_latest >= 0]
  IN  IF client_version = <<>>
      THEN IF is_reactivation /\ allow_older_reactivations
           THEN [result EXCEPT
                   !.valid = TRUE, !.warning_only = TRUE,
                   !.message = [text |-> "Reactivation request - version not provided but allowed",
                                cites |-> <<>>]]
           ELSE [result EXCEPT
                   !.message = [text |-> "No software version information provided in request",
                                cites |-> <<>>]]
      ELSE IF is_reactivation /\ allow_older_reactivations
      THEN IF ~compared.is_latest
           THEN [compared EXCEPT
                   !.valid = TRUE, !.warning_only = TRUE,
                   !.message = [text |-> "Reactivation allowed, but please update",
                                cites |-> <<client_version, latest_version>>]]
           ELSE [compared EXCEPT
                   !.valid = TRUE,
                   !.message = [text |-> "Reactivation approved for current version",
                                cites |-> <<client_version>>]]
      ELSE IF vs_minimum < 0
      THEN [compared EXCEPT
              !.valid = compared.is_acceptable,
              !.message = [text |-> "Version is outdated",
                           cites |-> <<client_version, minimum_version, latest_version>>]]
      ELSE IF vs_latest < 0
      THEN [compared EXCEPT
              !.valid = compared.is_acceptable, !.warning_only = TRUE,
              !.message = [text |-> "Version is acceptable but not latest",
                           cites |-> <<client_version, latest_version>>]]
      ELSE [compared EXCEPT
              !.valid = compared.is_acceptable,
              !.message = [text |-> "Version is current and up to date",
                           cites |-> <<client_version>>]]

VARIABLES
  now,          \* the clock
  ops,          \* clock advances and script runs so far
  store,        \* data/active-licenses/license-<fp>.json
  history,      \* data/license-history/license-<fp>-reactivated-<stamp>.json
  expiringFile, \* expiring_licenses.json
  scanOut,      \* what the last run of check-expiring-licenses.py reported
  run,          \* the runs of auto-reactivate.py, per process
  audit,        \* per fingerprint: the expiry first stored and what was reported
  issue,        \* what the last run of generate-license.py did
  request,      \* what the last run of validate-request.py did
  version,      \* what the last run of validate-version.py did
  cmp           \* the last call of compare_versions

vars == <<now, ops, store, history, expiringFile, scanOut, run, audit, issue,
          request, version, cmp>>

IdleRun ==
  [pc |-> "idle", list |-> <<>>, idx |-> 0, count |-> 0,
   ok |-> <<>>, err |-> <<>>, out |-> [kind |-> "none", reactivated_count |-> 0,
                                        total_expiring |-> 0, failed |-> 0]]

NoScan ==
  [status |-> "none", total_licenses |-> 0, expiring_count |-> 0,
   load_errors |-> <<>>, parse_errors |-> <<>>, now |-> 0, stored |-> 0]

NoIssue ==
  [status |-> "none", fingerprint |-> <<>>, company |-> <<>>, email |-> <<>>,
   duration |-> 0, exit_code |-> 0, error |-> "", printed |-> FALSE,
   license_data |-> NullRec]

NoRequest ==
  [status |-> "none", title |-> <<>>, body |-> <<>>,
   info |-> [fingerprint |-> <<>>, company |-> <<>>, email |-> <<>>, name |-> <<>>,
             valid |-> FALSE, errors |-> <<>>],
   exit_code |-> 0]

NoVersion ==
  [status |-> "none", title |-> <<>>, body |-> <<>>, config |-> NoConfig,
   is_reactivation |-> FALSE, enforce_check |-> TRUE,
   allow_older_reactivations |-> TRUE,
   result |-> new_result(<<>>, <<>>, <<>>, FALSE), exit_code |-> 0]

NoCompare == [status |-> "none", v1 |-> <<>>, v2 |-> <<>>, out |-> 0]

NewAudit(f) == [orig |-> f.data.expires_date, succ |-> 0, written |-> 0]

\* the files and the scripts that work on them, before any run
InitFiles ==
  /\ now = Now0
  /\ ops = 0
  /\ history = <<>>
  /\ expiringFile = [exists |-> FALSE, data |-> <<>>]
  /\ scanOut = NoScan
  /\ run = [p \in Procs |-> IdleRun]
  /\ audit = [fp \in StoreFps |-> NewAudit(store[fp])]
  /\ issue = NoIssue

InitRest ==
  /\ InitFiles
  /\ request = NoRequest
  /\ version = NoVersion
  /\ cmp = NoCompare

Init ==
  /\ store \in [StoreFps -> UNION {LifeFiles(fp) : fp \in StoreFps}]
  /\ \A fp \in StoreFps : store[fp] \in LifeFiles(fp)
  /\ InitRest

\* the stores the scans are checked on
InitScan ==
  /\ store \in [StoreFps -> UNION {SampleFiles(fp) : fp \in StoreFps}]
  /\ \A fp \in StoreFps : store[fp] \in SampleFiles(fp)
  /\ InitRest

\* the clock advances: by an instant at any time, by a month while no script
\* is running
Tick ==
  /\ ops < MaxOps
  /\ \/ now' = now + 1
     \/ (\A p \in Procs : run[p].pc = "idle") /\ now' = now + Month
  /\ ops' = ops + 1
  /\ UNCHANGED <<store, history, expiringFile, scanOut, run, audit, issue, request, version, cmp>>

Orders(S) == {o \in [1..Cardinality(S) -> S] : \A i, j \in 1..Cardinality(S) : i # j => o[i] # o[j]}

\* main of check-expiring-licenses.py
Scan ==
  /\ ops < MaxOps
  /\ ops' = ops + 1
  /\ \E order \in Orders({fp \in StoreFps : store[fp].kind # "none"}) :
       LET licenses == load_active_licenses(store, order)
           expiring == find_expiring_licenses(licenses, DaysAhead, now)
       IN  IF scan_crashes(licenses)
           THEN /\ scanOut' = [NoScan EXCEPT !.status = "crash", !.now = now,
                                 !.load_errors = load_errors(store, order),
                                 !.stored = Len(order)]
                /\ UNCHANGED expiringFile
           ELSE /\ scanOut' = [status |-> "ok", total_licenses |-> Len(licenses),
                               expiring_count |-> Len(expiring),
                               load_errors |-> load_errors(store, order),
                               parse_errors |-> parse_errors(licenses, DaysAhead, now),
                               now |-> now, stored |-> Len(order)]
                /\ expiringFile' = [exists |-> TRUE, data |-> expiring]
  /\ UNCHANGED <<now, store, history, run, audit, issue, request, version, cmp>>

\* an except clause that leaves the loop at the first failure
on_exception_Abort(r, data) ==
  [r EXCEPT !.list[r.idx] = data, !.err = Append(@, r.idx),
            !.idx = Len(r.list) + 1, !.pc = "loop"]

\* the except clause of the loop of main (auto-reactivate.py): the failure
\* is printed and the loop goes on with the next record
on_exception(r, data) ==
  [r EXCEPT !.list[r.idx] = data, !.err = Append(@, r.idx), !.idx = @ + 1, !.pc = "loop"]

\* main of auto-reactivate.py up to the loop
ReactStart(p) ==
  /\ run[p].pc = "idle"
  /\ p = "r2" => run["r1"].pc # "idle"   \* the names are interchangeable: r2 is the
                                         \* run that starts while another one goes on
  /\ ops < MaxOps
  /\ ops' = ops + 1
  /\ LET expiring_licenses == load_expiring_licenses(expiringFile)
     IN  IF expiring_licenses = <<>>
         THEN run' = [run EXCEPT ![p] = [IdleRun EXCEPT !.out.kind = "nothing"]]
         ELSE run' = [run EXCEPT ![p] = [IdleRun EXCEPT !.pc = "loop", !.idx = 1,
                                            !.list = expiring_licenses]]
  /\ UNCHANGED <<now, store, history, expiringFile, scanOut, audit, issue, request, version, cmp>>

\* reactivate_license and the first write of save_reactivated_license
ReactExtend(p) ==
  /\ run[p].pc = "loop"
  /\ run[p].idx <= Len(run[p].list)
  /\ LET r == run[p]
         res == reactivate_license(r.list[r.idx], now)
         fp == res.data.hardware_fingerprint
     IN  IF res.raised \/ fp = NoFp
         THEN /\ run' = [run EXCEPT ![p] = on_exception(r, res.data)]
              /\ UNCHANGED <<store, audit>>
         ELSE \E io \in IOResults :
                IF io = "ok"
                THEN /\ store' = [store EXCEPT ![fp] = DictFile(res.data)]
                     /\ audit' = [audit EXCEPT ![fp].written = @ + 1]
                     /\ run' = [run EXCEPT ![p].list[r.idx] = res.data, ![p].pc = "history"]
                ELSE /\ run' = [run EXCEPT ![p] = on_exception(r, res.data)]
                     /\ UNCHANGED <<store, audit>>
  /\ UNCHANGED <<now, ops, history, expiringFile, scanOut, issue, request, version, cmp>>

history_name(license_data, t) == <<license_data.hardware_fingerprint, strftime(t)>>

write_file(dir, name, data) ==
  [k \in DOMAIN dir \cup {name} |-> IF k = name THEN data ELSE dir[k]]

\* the second write of save_reactivated_license and the rest of the try block
ReactHistory(p) ==
  /\ run[p].pc = "history"
  /\ LET r == run[p]
         license_data == r.list[r.idx]
         fp == license_data.hardware_fingerprint
     IN  \E io \in IOResults :
           IF io = "ok"
           THEN /\ history' = write_file(history, history_name(license_data, now), license_data)
                /\ audit' = [audit EXCEPT ![fp].succ = @ + 1]
                /\ run' = [run EXCEPT ![p].count = @ + 1, ![p].ok = Append(@, r.idx),
                                      ![p].idx = @ + 1, ![p].pc = "loop"]
           ELSE /\ run' = [run EXCEPT ![p] = on_exception(r, license_data)]
                /\ UNCHANGED <<history, audit>>
  /\ UNCHANGED <<now, ops, store, expiringFile, scanOut, issue, request, version, cmp>>

\* the summary after the loop
ReactFinish(p) ==
  /\ run[p].pc = "loop"
  /\ run[p].idx > Len(run[p].list)
  /\ run' = [run EXCEPT ![p].pc = "idle", ![p].list = <<>>, ![p].idx = 0, ![p].count = 0,
               ![p].out = [kind |-> "summary", reactivated_count |-> run[p].count,
                           total_expiring |-> Len(run[p].list),
                           failed |-> Len(run[p].list) - run[p].count]]
  /\ UNCHANGED <<now, ops, store, history, expiringFile, scanOut, audit, issue, request, version, cmp>>

\* main of generate-license.py: the arguments are checked, the license is
\* created and printed in the legacy format; the block that follows uses the
\* module os, which the script never imports, and ends the run with NameError
GenerateLicense(fingerprint, company, email, duration) ==
  /\ LET error == argument_error(fingerprint, company, email)
         license_data == create_license(fingerprint, company, email, duration, now)
     IN  issue' = [status |-> "ran", fingerprint |-> fingerprint, company |-> company,
                   email |-> email, duration |-> duration, exit_code |-> 1,
                   error |-> IF error # "" THEN error ELSE "NameError: name 'os' is not defined",
                   printed |-> (error = ""),
                   license_data |-> IF error = "" THEN license_data ELSE NullRec]
  /\ UNCHANGED <<now, ops, store, history, expiringFile, scanOut, run, audit,
               request, version, cmp>>

\* the requests and the configurations validate-version.py is tried on
ReactivationPrefix == <<"A", "u", "t", "o", "-", "R", "e", "a", "c", "t", "i", "v", "a", "t", "i", "o", "n", " ", "R", "e", "q", "u", "e", "s", "t", " ", "-", " ">>
TitleOf(prefix, company, fingerprint) == prefix \o company \o Sep \o fingerprint
TitleNew == TitleOf(TitlePrefix, Acme, FpA)
TitleReactivation == TitleOf(ReactivationPrefix, Acme, FpA)
SampleTitles == {TitleNew, TitleReactivation}

EmailLine == <<"E", "m", "a", "i", "l", ":", " ">> \o OpsAtAcme \o <<Newline>>
VersionLine(v) == VersionLabels[1] \o <<" ">> \o v \o <<Newline>>

V300 == <<"3", ".", "0", ".", "0">>
V32 == <<"3", ".", "2">>
V320 == <<"3", ".", "2", ".", "0">>
V324 == <<"3", ".", "2", ".", "4">>
V325 == <<"3", ".", "2", ".", "5">>
V329 == <<"3", ".", "2", ".", "9">>
V3210 == <<"3", ".", "2", ".", "1", "0">>
V330 == <<"3", ".", "3", ".", "0">>
V3100 == <<"3", ".", "1", "0", ".", "0">>
SampleClientVersions == {V300, V324, V325, V3210, V330, V3100}
SampleBodies ==
  {EmailLine, EmailLine \o <<"V", "e", "r", "s", "i", "o", "n", ":", " ">> \o V32 \o <<Newline>>,
   EmailLine \o <<"L", "i", "c", "e", "n", "s", "e", " ", "r", "e", "a", "c", "t", "i", "v", "a", "t", "i", "o", "n", "\n">> \o VersionLine(V300)}
  \cup {EmailLine \o VersionLine(v) : v \in SampleClientVersions}

SampleSettings ==
  [minimum_version : {V324, V32, V330}, latest_version : {V324, V330, V3100},
   enforce_version_check : BOOLEAN, allow_older_reactivations : BOOLEAN]
  \cup {[minimum_version |-> V330], [latest_version |-> V330],
        [enforce_version_check |-> FALSE], [allow_older_reactivations |-> FALSE],
        [minimum_version |-> V300, latest_version |-> V330]}
SampleConfigs ==
  {NoConfig, GarbageConfig, NonDictConfig, ConfigWithout, ConfigNull}
  \cup {ConfigWith(d) : d \in SampleSettings}

\* main of validate-version.py: an exception of load_version_config, or of
\* config.get on a value that is not an object, ends the run with a
\* traceback and exit code 1
ValidateVersion(title, body, file) ==
  /\ LET loaded == load_version_config(file)
         config == loaded.config
         minimum_version == dict_get(config, "minimum_version", DefaultVersion)
         latest_version == dict_get(config, "latest_version", DefaultVersion)
         enforce_check == dict_get(config, "enforce_version_check", TRUE)
         allow_older_reactivations == dict_get(config, "allow_older_reactivations", TRUE)
         is_reactivation == is_reactivation_request(title, body)
         client_version == extract_version_from_body(body)
         result == validate_version(client_version, minimum_version, latest_version,
                                    is_reactivation, allow_older_reactivations)
     IN  IF loaded.raised \/ ~loaded.is_dict
         THEN version' = [NoVersion EXCEPT !.status = "crash", !.title = title,
                                           !.body = body, !.config = file,
                                           !.exit_code = 1]
         ELSE version' = [status |-> "ran", title |-> title, body |-> body,
                          config |-> file, is_reactivation |-> is_reactivation,
                          enforce_check |-> enforce_check,
                          allow_older_reactivations |-> allow_older_reactivations,
                          result |-> result,
                          exit_code |-> IF enforce_check /\ ~result.valid THEN 1 ELSE 0]
  /\ UNCHANGED <<now, ops, store, history, expiringFile, scanOut, run, audit, issue,
                 request, cmp>>

\* the versions compare_versions is tried on
SampleVersions ==
  {V300, V32, V320, V324, V329, V3210, V330, V3100, <<"3">>, <<"4">>,
   V324 \o <<".", "0">>, V32 \o <<".", "0", ".", "0">>, <<"0", "3">> \o <<".", "2", ".", "4">>,
   <<"3", ".", "x">>, <<"3", ".", ".", "2">>}

\* one call of compare_versions
CompareVersions(v1, v2) ==
  /\ cmp' = [status |-> "ran", v1 |-> v1, v2 |-> v2, out |-> compare_versions(v1, v2)]
  /\ UNCHANGED <<now, ops, store, history, expiringFile, scanOut, run, audit, issue,
                 request, version>>

\* the requests validate-request.py is tried on
BadEmailLine == EmailLabel \o <<" ", "o", "p", "s", "a", "c", "m", "e", ".", "c", "o", "m", "\n">>
FingerprintLine == FingerprintLabel \o <<" ">> \o FpA \o <<Newline>>
CompanyLine == CompanyLabel \o <<" ">> \o Acme \o <<Newline>>
RequestTitles ==
  {<<>>, TitleNew, TitleReactivation, TitlePrefix \o FpA, TitlePrefix \o Acme \o Sep,
   TitlePrefix \o Sep \o FpA, TitleOf(TitlePrefix, <<"A">>, FpA),
   TitleOf(TitlePrefix, Acme, Rep("A", 15)),
   TitleOf(TitlePrefix, Acme \o <<" ">>, <<" ">> \o FpA \o <<" ">>)}
RequestBodies ==
  {<<>>, EmailLine, BadEmailLine, BadEmailLine \o FingerprintLine,
   BadEmailLine \o CompanyLine, EmailLine \o FingerprintLine \o CompanyLine,
   EmailLabel \o <<Newline>>, EmailLabel \o <<Newline, Newline>> \o CompanyLine,
   ContactLabel \o <<" ", "B", "o", "b", "\n">> \o EmailLine}

\* main of validate-request.py
ValidateRequest(title, body) ==
  /\ LET info == extract_issue_info(title, body)
     IN  request' = [status |-> "ran", title |-> title, body |-> body, info |-> info,
                     exit_code |-> IF info.valid THEN 0 ELSE 1]
  /\ UNCHANGED <<now, ops, store, history, expiringFile, scanOut, run, audit, issue,
                 version, cmp>>

Next ==
  \/ Tick
  \/ Scan
  \/ \E p \in Procs : ReactStart(p)
  \/ \E p \in Procs : ReactExtend(p)
  \/ \E p \in Procs : ReactHistory(p)
  \/ \E p \in Procs : ReactFinish(p)

Spec == Init /\ [][Next]_vars

\* the caller lets at most one run of auto-reactivate.py go on at a time
NextMutex ==
  \/ Tick
  \/ Scan
  \/ \E p \in Procs : (\A q \in Procs : run[q].pc = "idle") /\ ReactStart(p)
  \/ \E p \in Procs : ReactExtend(p)
  \/ \E p \in Procs : ReactHistory(p)
  \/ \E p \in Procs : ReactFinish(p)

SpecMutex == Init /\ [][NextMutex]_vars

\* generate-license.py alone, on every sample of its arguments
NextIssue ==
  \/ Tick
  \/ \E fingerprint \in SampleFingerprints, company \in SampleCompanies,
        email \in SampleEmails, duration \in SampleDurations :
        GenerateLicense(fingerprint, company, email, duration)

SpecIssue == Init /\ [][NextIssue]_vars

\* check-expiring-licenses.py alone, on every sample store
NextScan ==
  \/ Tick
  \/ Scan

SpecScan == InitScan /\ [][NextScan]_vars

\* validate-version.py alone, on every sample request and configuration
InitVersion ==
  /\ store = [fp \in StoreFps |-> NoFile]
  /\ InitFiles
  /\ request = NoRequest
  /\ cmp = NoCompare
  /\ \E title \in SampleTitles, body \in SampleBodies, file \in SampleConfigs :
       version = [NoVersion EXCEPT !.status = "called", !.title = title,
                                   !.body = body, !.config = file]

NextVersion ==
  version.status = "called" /\ ValidateVersion(version.title, version.body, version.config)

SpecVersion == InitVersion /\ [][NextVersion]_vars

\* compare_versions alone, on every pair of sample versions
NextCompare == \E v1, v2 \in SampleVersions : CompareVersions(v1, v2)

SpecCompare == Init /\ [][NextCompare]_vars

\* the reactivation route with validate-version.py at hand: requests are
\* checked by validate-version.py while the scheduled scan and reactivation
\* run; no script calls another or reads what another has decided
InitRoutes ==
  /\ store = [fp \in StoreFps |->
                DictFile(Rec(fp, <<fp, 0>>, Naive(Now0 - timedelta(60)),
                             Naive(Now0 + timedelta(2)), "active"))]
  /\ InitRest

NextRoutes ==
  \/ \E title \in SampleTitles : ValidateVersion(title, EmailLine, NoConfig)
  \/ Scan
  \/ ReactStart("r1")
  \/ ReactExtend("r1")
  \/ ReactHistory("r1")
  \/ ReactFinish("r1")

SpecRoutes == InitRoutes /\ [][NextRoutes]_vars

\* validate-request.py alone, on every sample title and body
InitRequest ==
  /\ store = [fp \in StoreFps |-> NoFile]
  /\ InitFiles
  /\ version = NoVersion
  /\ cmp = NoCompare
  /\ \E title \in RequestTitles, body \in RequestBodies :
       request = [NoRequest EXCEPT !.status = "called", !.title = title, !.body = body]

NextRequest ==
  request.status = "called" /\ ValidateRequest(request.title, request.body)

SpecRequest == InitRequest /\ [][NextRequest]_vars

(***************************************************************************)
(* Properties.                                                             *)
(***************************************************************************)
parsable(s) == fromisoformat(replace_Z(s)).ok
expiry(s) == fromisoformat(replace_Z(s)).t

Listed == {expiringFile.data[i] : i \in 1..Len(expiringFile.data)}
StoredDicts == {store[fp].data : fp \in {f \in StoreFps : store[f].kind = "dict"}}
Reported(seq) == {seq[i] : i \in 1..Len(seq)}

\* C5: the expiring set of a scan is exactly the set of stored records whose
\* status is active and whose expiresAt is parsable and <= now + window
C5_ExpiringSetExact ==
  scanOut.status = "ok" =>
    Listed = {r \in StoredDicts :
                /\ r.status = "active"
                /\ parsable(r.expires_date)
                /\ expiry(r.expires_date) <= scanOut.now + timedelta(DaysAhead)}

\* C6 as stated: no scan lists a record whose expiresAt is already earlier
\* than now, and no reactivation advances the expiresAt of such a record
C6_ExpiredIsTerminal ==
  scanOut.status = "ok" =>
    /\ \A r \in Listed : expiry(r.expires_date) >= scanOut.now
    /\ \A r \in StoredDicts :
         parsable(r.expires_date) /\ expiry(r.expires_date) < scanOut.now =>
           expiry(reactivate_license(r, scanOut.now).data.expires_date)
             = expiry(r.expires_date)

\* C6 as amended: only the stored status makes a license terminal.  No scan
\* lists a record whose status is not active; a record still marked active
\* whose timezone-free expiresAt is already earlier than now is listed, and
\* reactivating it advances its expiresAt by 30 days
C6_ExpiredStatusIsTerminal ==
  scanOut.status = "ok" =>
    /\ \A r \in Listed : r.status = "active"
    /\ \A r \in StoredDicts :
         /\ r.status = "active"
         /\ r.expires_date.fmt = "naive"
         /\ r.expires_date.t < scanOut.now
         => /\ r \in Listed
            /\ ~reactivate_license(r, scanOut.now).raised
            /\ expiry(reactivate_license(r, scanOut.now).data.expires_date)
                 = r.expires_date.t + timedelta(30)

\* a scan listed an overdue record and left a record marked expired out
C6_Witness ==
  /\ scanOut.status = "ok"
  /\ \E r \in Listed : expiry(r.expires_date) < scanOut.now
  /\ \E r \in StoredDicts : r.status = "expired" /\ r \notin Listed

\* C8: a scan is never aborted, reports every record whose expiresAt is
\* missing or unparsable and every file that cannot be loaded, keeps them out
\* of the expiring set, and reports a total equal to the number of stored
\* records
C8_ScanReportsEveryRecord ==
  scanOut.status # "none" =>
    /\ scanOut.status = "ok"
    /\ scanOut.total_licenses = scanOut.stored
    /\ \A fp \in StoreFps :
         store[fp].kind = "garbage" => fp \in Reported(scanOut.load_errors)
    /\ \A r \in StoredDicts :
         ~parsable(r.expires_date) =>
           /\ r.hardware_fingerprint \in Reported(scanOut.parse_errors)
           /\ r \notin Listed

\* C4: every request that the validator accepts is accepted by the issuer
\* and results in a license record, with no failure of the issuance step
C4_ValidatedRequestIsIssued ==
  issue.status = "ran"
  /\ validation_errors(issue.fingerprint, issue.company, issue.email) = <<>>
  => /\ issue.exit_code = 0
     /\ issue.printed
     /\ issue.license_data.hardware_fingerprint = issue.fingerprint

\* C2, first half: without mutual exclusion two runs that read the same
\* expiring_licenses.json both report a success for the same fingerprint while
\* the persisted record holds one extension only (reachable under Spec)
C2_LostUpdateUnderInterleaving ==
  \E fp \in StoreFps :
    /\ \A p \in Procs : run[p].out.kind = "summary" /\ run[p].out.reactivated_count >= 1
    /\ audit[fp].succ = 2
    /\ store[fp].kind = "dict"
    /\ expiry(store[fp].data.expires_date) = expiry(audit[fp].orig) + timedelta(30)

SampleDates ==
  {Naive(Now0 + timedelta(2)), Zulu(Now0 + timedelta(2)), Offset(Now0 - timedelta(40))}
SampleClocks == {now, Now0 + timedelta(45)}

\* the expiry read back from a record after one reactivation at clock n1 and
\* after a second one, of the result of the first, at clock n2
ExpiryAfterOne(r, n1) == expiry(reactivate_license(r, n1).data.expires_date)
ExpiryAfterTwo(r, n1, n2) ==
  expiry(reactivate_license(reactivate_license(r, n1).data, n2).data.expires_date)

\* C1: for every record with a parsable expiresAt = T and every clock value,
\* one reactivation yields T + 30 days and a reactivation of its result
\* yields T + 60 days
C1_ReactivationAdditive ==
  \A r \in StoredDicts \cup Listed :
    \A s \in {r.expires_date} \cup SampleDates :
      parsable(s) =>
        \A n1, n2 \in SampleClocks :
          /\ ExpiryAfterOne([r EXCEPT !.expires_date = s], n1) = expiry(s) + timedelta(30)
          /\ ExpiryAfterTwo([r EXCEPT !.expires_date = s], n1, n2) = expiry(s) + timedelta(60)

\* a stored record was reactivated twice in succession, each time from its
\* own result, and expires 60 days after its first expiry
C1_Witness ==
  \E fp \in StoreFps :
    /\ store[fp].kind = "dict"
    /\ store[fp].data.reactivation_count = 2
    /\ audit[fp].written = 2
    /\ expiry(store[fp].data.expires_date) = expiry(audit[fp].orig) + timedelta(60)
    /\ expiry(store[fp].data.expires_date) # now + timedelta(60)

\* C2, second half: while at most one reactivation run goes on at a time,
\* every reactivation reported as a success is reflected in the persisted
\* record: no extension is lost
C2_NoExtensionLostUnderMutex ==
  \A fp \in StoreFps :
    store[fp].kind = "dict" /\ parsable(audit[fp].orig) =>
      expiry(store[fp].data.expires_date)
        >= expiry(audit[fp].orig) + audit[fp].succ * timedelta(ExtensionDays)

\* C3: a reactivation run never writes back a record computed from a copy
\* older than the latest saved version, so the persisted expiresAt is as
\* many extensions past the original as there were writes of the record
C3_ReadsPersistedState ==
  \A fp \in StoreFps :
    store[fp].kind = "dict" /\ parsable(audit[fp].orig) =>
      expiry(store[fp].data.expires_date)
        = expiry(audit[fp].orig) + audit[fp].written * timedelta(ExtensionDays)

HistoryOf(fp) == {k \in DOMAIN history : k[1] = fp}

\* C9: history entries are never overwritten: a fingerprint has as many
\* history entries as it had successful reactivations
C9_HistoryNeverOverwritten ==
  \A fp \in StoreFps : Cardinality(HistoryOf(fp)) = audit[fp].succ

\* C10: the reactivationCount of a persisted record equals the number of
\* times lastReactivatedAt was set on it
C10_CountEqualsTimesSet ==
  \A fp \in StoreFps :
    store[fp].kind = "dict" =>
      get_reactivation_count(store[fp].data) = audit[fp].written

\* C7: every record of a batch is attempted: each index is reported either
\* as a success or as a failure, the successes in input order, and the
\* summary counts add up to the number of input records
Increasing(seq) == \A i, j \in 1..Len(seq) : i < j => seq[i] < seq[j]

C7_BatchNeverAborted ==
  \A p \in Procs :
    LET r == run[p]
    IN  /\ Reported(r.ok) \cap Reported(r.err) = {}
        /\ Increasing(r.ok)
        /\ Increasing(r.err)
        /\ r.pc \in {"loop", "history"} =>
             /\ Reported(r.ok) \cup Reported(r.err) = 1..(r.idx - 1)
             /\ r.count = Len(r.ok)
        /\ r.out.kind = "summary" =>
             /\ Reported(r.ok) \cup Reported(r.err) = 1..r.out.total_expiring
             /\ r.out.reactivated_count = Len(r.ok)
             /\ r.out.failed = Len(r.err)
             /\ r.out.reactivated_count + r.out.failed = r.out.total_expiring

\* a finished batch whose first record failed and whose second succeeded
C7_Witness ==
  \E p \in Procs :
    /\ run[p].out.kind = "summary"
    /\ run[p].out.total_expiring = 2
    /\ run[p].err = <<1>>
    /\ run[p].ok = <<2>>

\* C11: every record produced by issuance satisfies expiresAt > createdAt,
\* and an issuance with a zero or negative duration is rejected and produces
\* no record
C11_ExpiresAfterCreated ==
  issue.status = "ran" =>
    /\ issue.printed =>
         expiry(issue.license_data.expires_date) > expiry(issue.license_data.created_date)
    /\ issue.duration <= 0 =>
         /\ ~issue.printed
         /\ issue.license_data = NullRec

\* a step that prints an issued record, or that advances the persisted
\* expiry of a license
IssuesRecord == issue' # issue /\ issue'.printed
ExtendsExpiry ==
  \E fp \in StoreFps :
    /\ store[fp].kind = "dict" /\ store'[fp].kind = "dict"
    /\ parsable(store[fp].data.expires_date)
    /\ expiry(store'[fp].data.expires_date) > expiry(store[fp].data.expires_date)

\* C12: version policy is applied on every route: no step issues a record or
\* extends an expiresAt unless validate-version.py has evaluated a decision
\* whose valid flag is true
C12_VersionPolicyOnEveryRoute ==
  [][IssuesRecord \/ ExtendsExpiry => version.status = "ran" /\ version.result.valid]_vars

\* the order of versions: a >= b when no component of a is below that of b
\* unless an earlier component differs, absent components counting as 0
WellFormed(v) == \A i \in 1..Len(version_parts(v)) : version_parts(v)[i].ok
Component(v, i) == IF i <= Len(version_parts(v)) THEN version_parts(v)[i].n ELSE 0
Places(a, b) == 1..(Len(version_parts(a)) + Len(version_parts(b)))
AtLeast(a, b) ==
  \A i \in Places(a, b) :
    Component(a, i) < Component(b, i) =>
      \E j \in 1..(i - 1) : Component(a, j) # Component(b, j)

\* a run of validate-version.py that took the new-activation branch with a
\* client version in the body
NewActivationWithVersion ==
  /\ version.status = "ran"
  /\ ~(version.is_reactivation /\ version.allow_older_reactivations)
  /\ version.result.client_version # Unknown
  /\ WellFormed(version.result.minimum_version)
  /\ WellFormed(version.result.latest_version)

\* C13: on the new-activation path with a client version, the decision is
\* valid iff client >= minimum, warning_only iff valid and client < latest,
\* and a version below minimum is rejected with warning_only false and a
\* message citing the minimum and the latest
C13_NewActivationDecision ==
  NewActivationWithVersion =>
    LET r == version.result IN
      /\ r.valid <=> AtLeast(r.client_version, r.minimum_version)
      /\ r.warning_only <=> (r.valid /\ ~AtLeast(r.client_version, r.latest_version))
      /\ ~AtLeast(r.client_version, r.minimum_version) =>
           /\ ~r.valid /\ ~r.warning_only
           /\ r.message.text = "Version is outdated"
           /\ r.message.cites = <<r.client_version, r.minimum_version, r.latest_version>>
           /\ version.exit_code = (IF version.enforce_check THEN 1 ELSE 0)

\* a new activation with version 3.0.0 under the default minimum 3.2.4 was
\* rejected
C13_Witness ==
  /\ NewActivationWithVersion
  /\ version.title = TitleNew
  /\ version.result.client_version = V300
  /\ version.result.minimum_version = V324
  /\ ~version.result.valid
  /\ version.exit_code = 1

\* a new activation at or above the minimum and below the latest passed with
\* a warning
C13_WitnessWarning ==
  /\ NewActivationWithVersion
  /\ version.result.valid /\ version.result.warning_only
  /\ version.exit_code = 0

\* a run of validate-version.py on a reactivation request while older
\* reactivations are allowed
AllowedReactivation ==
  /\ version.status = "ran"
  /\ version.is_reactivation
  /\ version.allow_older_reactivations

\* C14: a reactivation request never fails on version when older
\* reactivations are allowed: the decision is valid for every client version
\* and for none; warning_only is true when no version is provided or the
\* version is below latest, and false otherwise.  Without the
\* reactivation-and-allowed condition a request with no version is invalid
C14_ReactivationNeverFailsOnVersion ==
  LET r == version.result IN
    /\ AllowedReactivation =>
         /\ r.valid
         /\ version.exit_code = 0
         /\ WellFormed(r.latest_version) =>
              (r.warning_only <=>
                 \/ r.client_version = Unknown
                 \/ ~AtLeast(r.client_version, r.latest_version))
    /\ version.status = "ran" /\ ~AllowedReactivation /\ r.client_version = Unknown =>
         /\ ~r.valid
         /\ ~r.warning_only

\* a reactivation with version 3.0.0, below the minimum 3.2.4, passed with a
\* warning
C14_Witness ==
  /\ AllowedReactivation
  /\ version.result.client_version = V300
  /\ version.result.minimum_version = V324
  /\ version.result.valid /\ version.result.warning_only
  /\ version.exit_code = 0

\* a reactivation without a version was refused because older reactivations
\* are not allowed
C14_WitnessNotAllowed ==
  /\ version.status = "ran"
  /\ version.is_reactivation /\ ~version.allow_older_reactivations
  /\ version.result.client_version = Unknown
  /\ ~version.result.valid

\* the version v with '.0' appended
WithZero(v) == v \o <<".", "0">>

\* C16: version comparison is antisymmetric and obeys the zero-padding law:
\* compare(a,b) = -compare(b,a), appending '.0' to either argument does not
\* change the result, compare("3.2.0","3.2") = 0 and
\* compare("3.3.0","3.2.9") = 1
C16_CompareAntisymmetricZeroPadded ==
  cmp.status = "ran" =>
    /\ cmp.out = -compare_versions(cmp.v2, cmp.v1)
    /\ cmp.out = compare_versions(WithZero(cmp.v1), cmp.v2)
    /\ cmp.out = compare_versions(cmp.v1, WithZero(cmp.v2))
    /\ WellFormed(cmp.v1) /\ WellFormed(cmp.v2) =>
         cmp.out = (IF AtLeast(cmp.v1, cmp.v2) /\ AtLeast(cmp.v2, cmp.v1) THEN 0
                    ELSE IF AtLeast(cmp.v1, cmp.v2) THEN 1 ELSE -1)
    /\ cmp.v1 = V320 /\ cmp.v2 = V32 => cmp.out = 0
    /\ cmp.v1 = V330 /\ cmp.v2 = V329 => cmp.out = 1

\* compare_versions("3.2.4", "3.2") was called and gave 1: the versions
\* differ in a component that only one of them has
C16_Witness ==
  /\ cmp.status = "ran"
  /\ cmp.v1 = V324 /\ cmp.v2 = V32
  /\ cmp.out = 1

\* the settings that the configuration file holds, none when the file is
\* missing or malformed
SettingsOf(file) ==
  IF file.kind = "dict" /\ file.settings.kind = "dict" THEN file.settings.dict ELSE <<>>

\* C17: policy configuration never fails the request: with the file
\* missing, malformed or lacking settings, the version check runs and uses
\* the documented defaults for the absent values (minimum = latest = 3.2.4,
\* enforce = true, allowOlderReactivations = true)
C17_ConfigNeverFails ==
  version.status # "called" /\ version.status # "none" =>
    LET d == SettingsOf(version.config) IN
      /\ version.status = "ran"
      /\ "minimum_version" \notin DOMAIN d => version.result.minimum_version = V324
      /\ "latest_version" \notin DOMAIN d => version.result.latest_version = V324
      /\ "enforce_version_check" \notin DOMAIN d => version.enforce_check
      /\ "allow_older_reactivations" \notin DOMAIN d => version.allow_older_reactivations

\* the number of the three fields that are missing or malformed in the
\* extracted information
Failing(info) ==
  {f \in {"fingerprint", "company", "email"} :
     \/ f = "fingerprint" /\ ~validate_hardware_fingerprint(info.fingerprint)
     \/ f = "company" /\ Len(info.company) < 2
     \/ f = "email" /\ ~validate_email(info.email)}

\* a title that lacks the company and holds a well-formed fingerprint, and a
\* body whose email lacks the '@' and that names no company
TitleMissingCompany(title) ==
  \E fp \in StoreFps : validate_hardware_fingerprint(fp) /\ title = TitlePrefix \o fp
EmailMissingAt(body) ==
  /\ body_field(body, EmailLabel) # <<>>
  /\ "@" \notin {body_field(body, EmailLabel)[i] : i \in 1..Len(body_field(body, EmailLabel))}
  /\ ~contains(body, CompanyLabel)

\* C15: the three fields are validated independently and every failure is
\* reported: valid iff the error list is empty, one entry per field that is
\* missing or malformed and none for a well-formed one, and a title missing
\* the company together with an email missing '@' gives exactly two errors
C15_AllFailuresReported ==
  request.status = "ran" =>
    /\ request.info.valid <=> request.info.errors = <<>>
    /\ Len(request.info.errors) = Cardinality(Failing(request.info))
    /\ TitleMissingCompany(request.title) /\ EmailMissingAt(request.body) =>
         Len(request.info.errors) = 2

\* the fields of a record that identify the license
Identity(r) ==
  <<r.license_key, r.hardware_fingerprint, r.company_name, r.contact_email, r.created_date>>

\* C18: reactivation changes only expiresAt, lastReactivatedAt,
\* reactivationCount and status: whenever a persisted record changes, its
\* licenseKey, hardwareFingerprint, companyName, contactEmail and createdAt
\* are what they were, and so are those of a record passed through
\* reactivate_license
C18_ReactivationKeepsIdentity ==
  [][/\ \A fp \in StoreFps :
          store'[fp] # store[fp] =>
            /\ store[fp].kind = "dict" /\ store'[fp].kind = "dict"
            /\ Identity(store'[fp].data) = Identity(store[fp].data)
     /\ \A r \in StoredDicts :
          Identity(reactivate_license(r, now).data) = Identity(r)]_vars

\* a persisted record was reactivated and still carries the key it was
\* issued with
C18_Witness ==
  \E fp \in StoreFps :
    /\ store[fp].kind = "dict"
    /\ store[fp].data.last_reactivated = Naive(now)
    /\ store[fp].data.reactivation_count = 1
    /\ store[fp].data.license_key = <<fp, 0>>
    /\ store[fp].data.created_date = Naive(Now0 - timedelta(60))

StoredStatuses == {"active", "expired"}

\* C19: expiring is derived and never stored: a scan leaves every persisted
\* record and every history entry unchanged, and every record that issuance
\* produces or that reactivation writes has a status in {active, expired}
C19_ExpiringNeverStored ==
  [][/\ scanOut' # scanOut \/ expiringFile' # expiringFile =>
          store' = store /\ history' = history
     /\ \A fp \in StoreFps :
          store'[fp] # store[fp] => store'[fp].data.status \in StoredStatuses
     /\ \A k \in DOMAIN history' :
          k \notin DOMAIN history => history'[k].status \in StoredStatuses
     /\ \A fingerprint \in StoreFps, duration \in SampleDurations :
          create_license(fingerprint, Acme, OpsAtAcme, duration, now).status
            \in StoredStatuses]_vars

\* a scan has listed a persisted record written by a reactivation as
\* expiring, and the record is stored with the status active
C19_Witness ==
  /\ scanOut.status = "ok"
  /\ scanOut.now = now
  /\ \E fp \in StoreFps :
       /\ store[fp].kind = "dict"
       /\ audit[fp].written >= 1
       /\ store[fp].data \in Listed
       /\ store[fp].data.status = "active"

\* a step of a scan taken right after the license fp was reactivated with
\* success, at the time of that reactivation
RescanAfterReactivation(fp) ==
  /\ scanOut' # scanOut \/ expiringFile' # expiringFile
  /\ scanOut'.status = "ok"
  /\ store[fp].kind = "dict"
  /\ audit[fp].succ >= 1
  /\ store[fp].data.last_reactivated = Naive(now)

StillListed(fp) == \E i \in 1..Len(expiringFile.data) : expiringFile.data[i].hardware_fingerprint = fp

\* C20 as stated: for every record that a scan lists as expiring, after one
\* successful reactivation a scan at the same time with the same window no
\* longer lists it
C20_ReactivationEndsExpiring ==
  [][\A fp \in StoreFps : RescanAfterReactivation(fp) => ~StillListed(fp)']_vars

\* C20 as amended: the record leaves the expiring state when it was due
\* later than 25 days (the extension less the window) before the rescan; a
\* record overdue by 25 days or more is listed again after the reactivation
C20_ReactivationEndsExpiringUnlessOverdue ==
  [][\A fp \in StoreFps :
       RescanAfterReactivation(fp) /\ audit[fp].written = 1 /\ parsable(audit[fp].orig) =>
         IF expiry(audit[fp].orig) > now - timedelta(ExtensionDays - DaysAhead)
         THEN ~StillListed(fp)'
         ELSE store[fp].data \in Listed']_vars

\* a license due in two days was reactivated and the scan that followed at
\* the same time did not list it
C20_Witness ==
  \E fp \in StoreFps :
    /\ scanOut.status = "ok" /\ scanOut.now = now
    /\ store[fp].kind = "dict"
    /\ audit[fp].succ >= 1 /\ audit[fp].written = 1
    /\ store[fp].data.last_reactivated = Naive(now)
    /\ expiry(audit[fp].orig) = Now0 + timedelta(2)
    /\ ~StillListed(fp)

\* no run is between the two writes of save_reactivated_license
BetweenWrites == \E p \in Procs : run[p].pc = "history"

\* C21: a reactivation counted as failed leaves the store unchanged for its
\* fingerprint: the active record is written as often as successes are
\* reported for it, a record with failures only still has the expiresAt and
\* the reactivationCount it had, and outside of a save the active record and
\* the history are never one updated and the other not
C21_FailedLeavesStoreUnchanged ==
  ~BetweenWrites =>
    \A fp \in StoreFps :
      /\ audit[fp].written = audit[fp].succ
      /\ audit[fp].succ = 0 /\ store[fp].kind = "dict" =>
           /\ store[fp].data.expires_date = audit[fp].orig
           /\ store[fp].data.reactivation_count = Absent
      /\ audit[fp].succ = 0 => HistoryOf(fp) = {}

TypeOK == now >= Now0
====
